---- MODULE Spec2Model ----
(***************************************************************************)
(* A model of Xrbfetch: the full (non-simple) pipeline of xrbfetch.py and  *)
(* the functions of data.py, duplicates.py, checks.py and io.py it calls.  *)
(*                                                                         *)
(* A sample identifier "10317.01A.57016" is the tuple of its dot-separated *)
(* segments <<root, tag, prep>>; the tag is the tuple of its characters,   *)
(* so that isdigit(), [:-1] and int() are computed as Python computes them.*)
(* A biom table is [observation, sample, data]: the feature ids and the    *)
(* sample ids in table order and the count of every (feature, sample).     *)
(* A pandas frame is the sequence of its rows, a row a record.             *)
(* A Python dict is the sequence of its <<key, value>> items in insertion  *)
(* order when the code iterates it, and a function when it only looks up.  *)
(***************************************************************************)
EXTENDS Integers, Sequences, FiniteSets, TLC

\* ------------------------------------------------------------------ bounds

\* most sample columns of a table handed to a single function
MaxSamples == 3
\* most reads (column total) of a fetched sample
MaxReads == 2
\* most entries of an ambiguities file
MaxAmbi == 3
\* most sample columns of the table fetched by a pipeline run
MaxFetched == 2
\* the most rows of a metadata frame given to a function of duplicates.py
MaxRows == 3

\* ------------------------------------------------------- generic helpers

Range(s) == {s[i] : i \in 1..Len(s)}

Max(S) == CHOOSE x \in S : \A y \in S : y <= x

RECURSIVE SumOver(_, _)
SumOver(f, S) ==
    IF S = {} THEN 0
    ELSE LET x == CHOOSE y \in S : TRUE IN f[x] + SumOver(f, S \ {x})

\* the sequences of at most n distinct elements of S, in every order
Arrangements(S, n) ==
    UNION {{s \in [1..k -> S] : \A i, j \in 1..k : i # j => s[i] # s[j]} : k \in 0..n}

\* ------------------------------------------------------------ identifiers

Sam1p1 == <<"10317", <<"0", "1">>, "57016">>
Sam1p2 == <<"10317", <<"0", "1">>, "58862">>
Sam2p1 == <<"10317", <<"2">>, "57016">>

\* the identifiers a fetch may return: two preparations of one sample, and
\* another sample
SampleIds == {Sam1p1, Sam1p2, Sam2p1}

FeatureIds == <<"sp1", "sp2">>

\* sam.rsplit('.', 1)[0]
NoPrep(sam) == IF Len(sam) > 1 THEN SubSeq(sam, 1, Len(sam) - 1) ELSE sam

\* sam.split('.')[-1]
PrepOf(sam) == sam[Len(sam)]

\* the sample names (identifiers without preparation) of the universe
SampleNames == {NoPrep(s) : s \in SampleIds}

\* ------------------------------------------------------------ biom.Table

EmptyTable == [observation |-> <<>>, sample |-> <<>>, data |-> <<>>]

\* Table.shape: (number of observations, number of samples)
shape(t) == <<Len(t.observation), Len(t.sample)>>

\* Table.filter(ids_to_keep, axis='sample')
filter_sample(t, ids_to_keep) ==
    LET sam == SelectSeq(t.sample, LAMBDA s : s \in ids_to_keep)
    IN  [observation |-> t.observation,
         sample |-> sam,
         data |-> [p \in Range(t.observation) \X Range(sam) |-> t.data[p]]]

\* Table.filter(ids_to_keep, axis='observation')
filter_observation(t, ids_to_keep) ==
    LET obs == SelectSeq(t.observation, LAMBDA f : f \in ids_to_keep)
    IN  [observation |-> obs,
         sample |-> t.sample,
         data |-> [p \in Range(obs) \X Range(t.sample) |-> t.data[p]]]

\* Table.sum(axis='sample'): the reads of one sample
sum_sample(t, s) ==
    SumOver([f \in Range(t.observation) |-> t.data[<<f, s>>]], Range(t.observation))

\* Table.sum(axis='observation'): the reads of one feature
sum_observation(t, f) ==
    SumOver([s \in Range(t.sample) |-> t.data[<<f, s>>]], Range(t.sample))

\* Table.nonzero_counts(axis='sample', binary=True): the features of one sample
nonzero_counts_sample(t, s) ==
    Cardinality({f \in Range(t.observation) : t.data[<<f, s>>] # 0})

\* faulty variant: no feature is removed
remove_empty_observation_none(t) == t

\* Table.remove_empty(axis='observation')
remove_empty_observation(t) ==
    filter_observation(t, {f \in Range(t.observation) : sum_observation(t, f) # 0})

\* Table.remove_empty(axis='sample')
remove_empty_sample(t) ==
    filter_sample(t, {s \in Range(t.sample) : sum_sample(t, s) # 0})

\* ---------------------------------------------------------------- data.py

\* x[:length]: the first length units of a sequence; a feature identifier
\* is a sequence of the read length, taken as one unit
truncated(x, length) == SubSeq(x, 1, IF length < Len(x) THEN length ELSE Len(x))

\* remove_blooms(biom_tab, p_bloom_sequences): bloom_seqs are the lines of
\* the fasta file that do not start with '>'; the features that are not
\* among them are kept, then the samples left without a count are removed
remove_blooms(biom_tab, bloom_seqs) ==
    remove_empty_sample(
        filter_observation(
            biom_tab, {f \in Range(biom_tab.observation) : <<f>> \notin bloom_seqs}))

\* faulty variant: the features counted by their reads (no binary=True)
get_reads_features_counts_abundance(biom_tab) ==
    [read |-> [s \in Range(biom_tab.sample) |-> sum_sample(biom_tab, s)],
     feat |-> [s \in Range(biom_tab.sample) |-> sum_sample(biom_tab, s)]]

\* get_reads_features_counts: the reads and the features of every sample
get_reads_features_counts(biom_tab) ==
    [read |-> [s \in Range(biom_tab.sample) |-> sum_sample(biom_tab, s)],
     feat |-> [s \in Range(biom_tab.sample) |-> nonzero_counts_sample(biom_tab, s)]]

\* json_ambi_rev.setdefault(v, []).append(k)
setdefault_append(rev, v, k) ==
    IF \E i \in 1..Len(rev) : rev[i][1] = v
    THEN [i \in 1..Len(rev) |->
            IF rev[i][1] = v THEN <<v, Append(rev[i][2], k)>> ELSE rev[i]]
    ELSE Append(rev, <<v, <<k>>>>)

RECURSIVE reverse_json_ambi_loop(_, _, _)
reverse_json_ambi_loop(items, ids, rev) ==
    IF items = <<>> THEN rev
    ELSE LET k == Head(items)[1]
             v == Head(items)[2]
         IN  reverse_json_ambi_loop(
                Tail(items), ids,
                IF k \in ids THEN setdefault_append(rev, v, k) ELSE rev)

\* faulty variant: the inversion of the whole dict, whatever ids holds
reverse_json_ambi_all_keys(json_ambi, ids) ==
    reverse_json_ambi_loop(
        json_ambi, {json_ambi[i][1] : i \in 1..Len(json_ambi)}, <<>>)

\* reverse_json_ambi: values as keys, the keys found in ids as list values
reverse_json_ambi(json_ambi, ids) == reverse_json_ambi_loop(json_ambi, ids, <<>>)

\* get_most_read_or_features: the samples of amb_sams with the most counts
get_most_read_or_features(amb_sams, counts) ==
    LET count_max == Max({counts[s] : s \in Range(amb_sams)})
    IN  SelectSeq(amb_sams, LAMBDA s : counts[s] = count_max)

\* io.read_json_ambiguities_file: the dict of the file, {} without a file
read_json_ambiguities_file(amb_file) ==
    IF amb_file.isfile THEN amb_file.json ELSE <<>>

\* faulty variant: the first of the most read samples, features not compared
best_of_reads_only(amb_sams, read_counts, feat_counts) ==
    get_most_read_or_features(amb_sams, read_counts)[1]

\* faulty variant: the last of the best samples (cur_best_samples[-1])
best_of_last(amb_sams, read_counts, feat_counts) ==
    LET by_reads == get_most_read_or_features(amb_sams, read_counts)
        cur_best_samples ==
            IF Len(by_reads) > 1
            THEN get_most_read_or_features(by_reads, feat_counts)
            ELSE by_reads
    IN  cur_best_samples[Len(cur_best_samples)]

\* the body of the loop of solve_ambiguous_preps for one canonical sample
best_of(amb_sams, read_counts, feat_counts) ==
    LET by_reads == get_most_read_or_features(amb_sams, read_counts)
        cur_best_samples ==
            IF Len(by_reads) > 1
            THEN get_most_read_or_features(by_reads, feat_counts)
            ELSE by_reads
    IN  cur_best_samples[1]

\* best_samples of solve_ambiguous_preps: one identifier per canonical sample
best_samples_of(json_ambi_rev, read_counts, feat_counts) ==
    [i \in 1..Len(json_ambi_rev) |->
        best_of(json_ambi_rev[i][2], read_counts, feat_counts)]

\* faulty variant: non_ambiguous compares the identifiers with their
\* preparation, so that every other candidate counts as not ambiguous
ids_to_keep_of_full_id(best_samples, ids) ==
    Range(best_samples) \cup {i \in ids : i \notin Range(best_samples)}

\* faulty variant: ids_to_keep = best_samples, non_ambiguous forgotten
ids_to_keep_of_best_only(best_samples, ids) == Range(best_samples)

\* faulty variant: non_ambiguous with "in" for "not in"
ids_to_keep_of_in(best_samples, ids) ==
    LET best_samples_noprep == {NoPrep(b) : b \in Range(best_samples)}
        non_ambiguous == {i \in ids : NoPrep(i) \in best_samples_noprep}
    IN  Range(best_samples) \cup non_ambiguous

\* ids_to_keep of solve_ambiguous_preps
ids_to_keep_of(best_samples, ids) ==
    LET best_samples_noprep == {NoPrep(b) : b \in Range(best_samples)}
        non_ambiguous == {i \in ids : NoPrep(i) \notin best_samples_noprep}
    IN  Range(best_samples) \cup non_ambiguous

\* solve_ambiguous_preps: the table with one preparation per ambiguous sample
solve_ambiguous_preps(amb_file, biom_tab, read_counts, feat_counts) ==
    LET json_ambi == read_json_ambiguities_file(amb_file)
        ids == Range(biom_tab.sample)
        json_ambi_rev == reverse_json_ambi(json_ambi, ids)
        best_samples == best_samples_of(json_ambi_rev, read_counts, feat_counts)
    IN  remove_empty_observation(
            filter_sample(biom_tab, ids_to_keep_of(best_samples, ids)))

\* DataFrame.drop(columns=cols) on one row
drop_columns(row, cols) == [c \in (DOMAIN row) \ cols |-> row[c]]

\* the columns of a frame (a frame read from a file has its first column)
columns_of(frame) == IF frame = <<>> THEN {"sample_name"} ELSE DOMAIN frame[1]

RECURSIVE concat_all(_)
concat_all(seqs) == IF seqs = <<>> THEN <<>> ELSE Head(seqs) \o concat_all(Tail(seqs))

\* the row merge_read_features_counts builds for one table identifier
counts_row(ID, read_counts, feat_counts) ==
    [sample_name |-> NoPrep(ID),
     qiita_prep_id |-> PrepOf(ID),
     read_count |-> read_counts[ID],
     feature_count |-> feat_counts[ID],
     orig_sample_name |-> ID]

\* faulty variant: how='inner', only the rows of the right frame that have
\* a matching left row
merge_inner(left, right) ==
    LET rows_for(r) ==
            LET m == SelectSeq(left, LAMBDA l : l.sample_name = r.sample_name)
            IN  [j \in 1..Len(m) |-> m[j] @@ r]
    IN  concat_all([i \in 1..Len(right) |-> rows_for(right[i])])

\* metadata.merge(right, on='sample_name', how='right'): the rows of the
\* right frame in order, each with its matching left rows, NaN without one
merge_right(left, right) ==
    LET nan_row == [c \in columns_of(left) \ {"sample_name"} |-> "NaN"]
        rows_for(r) ==
            LET m == SelectSeq(left, LAMBDA l : l.sample_name = r.sample_name)
            IN  IF m = <<>> THEN <<nan_row @@ r>>
                ELSE [j \in 1..Len(m) |-> m[j] @@ r]
    IN  concat_all([i \in 1..Len(right) |-> rows_for(right[i])])

\* merge_read_features_counts: the metadata of the samples of the table
merge_read_features_counts(metadata, biom_tab_no_ambi, read_counts, feat_counts) ==
    LET ids == biom_tab_no_ambi.sample
        stale == {"qiita_prep_id", "read_count", "feature_count", "orig_sample_name"}
        left == [i \in 1..Len(metadata) |-> drop_columns(metadata[i], stale)]
        ids_read_feat_counts_pd ==
            [i \in 1..Len(ids) |-> counts_row(ids[i], read_counts, feat_counts)]
    IN  merge_right(left, ids_read_feat_counts_pd)

\* faulty variant: the strict test (read_count > reads_filter)
enough_reads_strict(row, reads_filter) == row.read_count > reads_filter

\* the test of filter_reads on one metadata row
enough_reads(row, reads_filter) == row.read_count >= reads_filter

\* faulty variant: the rows with enough reads but the first (.iloc[1:])
filter_reads_iloc(metadata_counts, biom_tab_no_ambi, reads_filter) ==
    LET enough == SelectSeq(metadata_counts, LAMBDA r : r.read_count >= reads_filter)
        metadata_filt == IF enough = <<>> THEN <<>> ELSE Tail(enough)
        kept == filter_sample(
            biom_tab_no_ambi, {r.orig_sample_name : r \in Range(metadata_filt)})
    IN  [biom_tab_filt |-> remove_empty_observation(kept),
         metadata_filt |-> metadata_filt,
         biom_tab_no_ambi |-> kept]

\* filter_reads: the rows and the samples with at least reads_filter reads;
\* biom_tab_no_ambi is what Table.filter leaves of the table it is given
filter_reads(metadata_counts, biom_tab_no_ambi, reads_filter) ==
    LET metadata_filt ==
            SelectSeq(metadata_counts, LAMBDA r : enough_reads(r, reads_filter))
        kept == filter_sample(
            biom_tab_no_ambi, {r.orig_sample_name : r \in Range(metadata_filt)})
    IN  [biom_tab_filt |-> remove_empty_observation(kept),
         metadata_filt |-> metadata_filt,
         biom_tab_no_ambi |-> kept]

\* faulty variant: the test of filter_reads (v.sum() >= p_reads_filter)
more_reads_or_as_many(v_sum, p_reads_filter) == v_sum >= p_reads_filter

\* run_simple: the test of its minimum-read filter on the reads of a sample
more_reads(v_sum, p_reads_filter) == v_sum > p_reads_filter

\* run_simple: tab.filter(lambda v, i, m: v.sum() > p_reads_filter)
filter_more_reads(tab, p_reads_filter) ==
    filter_sample(tab, {sam \in Range(tab.sample) :
                            more_reads(sum_sample(tab, sam), p_reads_filter)})

\* Table.update_ids raises a TableException when two samples get one id
update_ids_raises(t, ids_map) ==
    \E i, j \in 1..Len(t.sample) :
        i # j /\ ids_map[t.sample[i]] = ids_map[t.sample[j]]

\* Table.update_ids(id_map, axis='sample', inplace=True)
update_ids(t, ids_map) ==
    LET sam == [i \in 1..Len(t.sample) |-> ids_map[t.sample[i]]]
        old(s) == CHOOSE o \in Range(t.sample) : ids_map[o] = s
    IN  [observation |-> t.observation,
         sample |-> sam,
         data |-> [p \in Range(t.observation) \X Range(sam) |->
                    t.data[<<p[1], old(p[2])>>]]]

\* faulty variant: every sample keeps its identifier
ids_map_of_same(biom_nodup) == [sam \in Range(biom_nodup.sample) |-> sam]

\* ids_map of update_sample_name
ids_map_of(biom_nodup) == [sam \in Range(biom_nodup.sample) |-> NoPrep(sam)]

\* faulty variant: two samples that get one identifier go unnoticed
update_sample_name_raises_never(update, biom_nodup) == FALSE

\* whether update_sample_name ends in the exception of update_ids
update_sample_name_raises(update, biom_nodup) ==
    update /\ update_ids_raises(biom_nodup, ids_map_of(biom_nodup))

\* update_sample_name: the table with its samples named without preparation
update_sample_name(update, biom_nodup) ==
    IF update THEN update_ids(biom_nodup, ids_map_of(biom_nodup)) ELSE biom_nodup

\* ---------------------------------------------------------- duplicates.py

Digits == {"0", "1", "2", "3", "4", "5", "6", "7", "8", "9"}

\* str.isdigit()
isdigit(chars) == chars # <<>> /\ \A i \in 1..Len(chars) : chars[i] \in Digits

DigitValue(c) ==
    CASE c = "0" -> 0 [] c = "1" -> 1 [] c = "2" -> 2 [] c = "3" -> 3
      [] c = "4" -> 4 [] c = "5" -> 5 [] c = "6" -> 6 [] c = "7" -> 7
      [] c = "8" -> 8 [] c = "9" -> 9

\* int() of a string of digits; str(int()) names the same number
RECURSIVE int_of(_)
int_of(chars) ==
    IF chars = <<>> THEN 0
    ELSE 10 * int_of(SubSeq(chars, 1, Len(chars) - 1)) + DigitValue(chars[Len(chars)])

\* chars[:-1]
but_last(chars) == SubSeq(chars, 1, Len(chars) - 1)

\* faulty variant: the character after the digits is left in the name
edit_sample_name_of_whole(sam) == sam

\* the two names add_edit_and_working_sample_name gives one identifier
edit_sample_name_of(sam) ==
    LET sam_agp == sam[2]
    IN  IF isdigit(sam_agp) THEN sam
        ELSE <<sam[1], but_last(sam_agp), sam[Len(sam)]>>

working_sample_name_of(sam) ==
    LET sam_agp == sam[2]
    IN  IF isdigit(sam_agp) THEN int_of(sam_agp) ELSE int_of(but_last(sam_agp))

\* add_edit_and_working_sample_name
add_edit_and_working_sample_name(metadata_filt) ==
    [i \in 1..Len(metadata_filt) |->
        metadata_filt[i] @@
        [edit_sample_name |-> edit_sample_name_of(metadata_filt[i].orig_sample_name),
         working_sample_name |-> working_sample_name_of(metadata_filt[i].orig_sample_name)]]

\* sort_values(['read_count', 'feature_count'], ascending=False): rows with
\* equal keys keep their order
sort_values_desc(rows) ==
    LET n == Len(rows)
        before(j, i) ==
            \/ rows[j].read_count > rows[i].read_count
            \/ /\ rows[j].read_count = rows[i].read_count
               /\ rows[j].feature_count > rows[i].feature_count
            \/ /\ rows[j].read_count = rows[i].read_count
               /\ rows[j].feature_count = rows[i].feature_count
               /\ j < i
        pos(i) == 1 + Cardinality({j \in 1..n : before(j, i)})
    IN  [p \in 1..n |-> rows[CHOOSE i \in 1..n : pos(i) = p]]

\* frame[~frame.host_subject_id.duplicated()]: the first row of every host
drop_duplicated_hosts(rows) ==
    LET first(i) == \A j \in 1..(i - 1) : rows[j].host_subject_id # rows[i].host_subject_id
        keep == {i \in 1..Len(rows) : first(i)}
        nth(p) == CHOOSE i \in keep : Cardinality({j \in keep : j < i}) = p - 1
    IN  [p \in 1..Cardinality(keep) |-> rows[nth(p)]]

\* max(host_subject_id.value_counts()): NaN hosts are not counted
max_host_count(rows) ==
    Max({Cardinality({i \in 1..Len(rows) : rows[i].host_subject_id = h}) :
            h \in {r.host_subject_id : r \in Range(rows)} \ {"NaN"}})

\* faulty variant: the rows are not sorted before the duplicated hosts go
keep_the_best_host_subject_id_sample_unsorted(metadata_edit) ==
    drop_duplicated_hosts(metadata_edit)

\* keep_the_best_host_subject_id_sample
keep_the_best_host_subject_id_sample(metadata_edit) ==
    IF max_host_count(metadata_edit) = 1 THEN metadata_edit
    ELSE drop_duplicated_hosts(sort_values_desc(metadata_edit))

\* best_sample of one working_sample_name group of
\* keep_the_best_root_sample_name_sample
best_root_sample(subtab) ==
    LET max_read == Max({r.read_count : r \in Range(subtab)})
        max_read_count_sample == SelectSeq(subtab, LAMBDA r : r.read_count = max_read)
        max_feat == Max({r.feature_count : r \in Range(max_read_count_sample)})
        max_feat_count_sample ==
            SelectSeq(max_read_count_sample, LAMBDA r : r.feature_count = max_feat)
    IN  IF Len(max_read_count_sample) > 1
        THEN max_feat_count_sample[1].edit_sample_name
        ELSE max_read_count_sample[1].edit_sample_name

\* faulty variant: every row of every working_sample_name is kept
keep_the_best_root_sample_name_sample_all(metadata_edit_host) == metadata_edit_host

\* keep_the_best_root_sample_name_sample
keep_the_best_root_sample_name_sample(metadata_edit_host) ==
    LET groups == {r.working_sample_name : r \in Range(metadata_edit_host)}
        subtab(w) == SelectSeq(metadata_edit_host, LAMBDA r : r.working_sample_name = w)
        best_samples == {best_root_sample(subtab(w)) : w \in groups}
    IN  SelectSeq(metadata_edit_host, LAMBDA r : r.edit_sample_name \in best_samples)

\* faulty variant: the table is not filtered to the samples that are left
remove_duplicates_table_kept(biom_tab_filt, metadata_filt, unique) ==
    LET edited == add_edit_and_working_sample_name(metadata_filt)
        hosted == IF unique THEN keep_the_best_host_subject_id_sample(edited) ELSE edited
        metadata_edit == keep_the_best_root_sample_name_sample(hosted)
    IN  [biom_nodup |-> remove_empty_observation(biom_tab_filt),
         metadata_edit_best |-> metadata_edit,
         biom_tab_filt |-> biom_tab_filt]

\* remove_duplicates; biom_tab_filt is what Table.filter leaves of its table
remove_duplicates(biom_tab_filt, metadata_filt, unique) ==
    LET edited == add_edit_and_working_sample_name(metadata_filt)
        hosted == IF unique THEN keep_the_best_host_subject_id_sample(edited) ELSE edited
        metadata_edit == keep_the_best_root_sample_name_sample(hosted)
        kept == filter_sample(
            biom_tab_filt, {r.orig_sample_name : r \in Range(metadata_edit)})
    IN  [biom_nodup |-> remove_empty_observation(kept),
         metadata_edit_best |-> metadata_edit,
         biom_tab_filt |-> kept]

\* ------------------------------------------------------- io.py, checks.py

\* read_meta_pd: the rows of the file, its first column named sample_name
read_meta_pd(file) ==
    LET first == file.columns[1]
        rename(c) == IF c = first THEN "sample_name" ELSE c
    IN  [i \in 1..Len(file.rows) |->
            [c \in {rename(file.columns[j]) : j \in 1..Len(file.columns)} |->
                LET j == CHOOSE j \in 1..Len(file.columns) : rename(file.columns[j]) = c
                IN  file.rows[i][j]]]

\* metadata['sample_name'].nunique()
nunique_sample_name(metadata) == Cardinality({r.sample_name : r \in Range(metadata)})

\* write_summary: the header line, then one line per entry
write_summary(summary) ==
    <<<<"steps", "samples">>>> \o summary

\* delete_files: removes the fetched table, the file named like it with
\* its extension replaced by '.ambiguities', and the samples list, if there
delete_files(fs) ==
    [fs EXCEPT !.redbiom_output = <<>>,
               !.splitext_ambiguities = FALSE,
               !.redbiom_samples = FALSE]

\* faulty variant: a table without observations does not stop the run
stops_when_asked(biom_tab, do_stop) == do_stop

\* the condition of potential_stop
stops(biom_tab, do_stop) == shape(biom_tab)[1] = 0 \/ do_stop

\* what potential_stop leaves on disk when it stops
potential_stop_files(fs, summary) ==
    delete_files([fs EXCEPT !.o_summary_file = write_summary(summary)])

\* write_outputs: the metadata and the table, for a table with observations
write_outputs(fs, biom_updated, metadata_edit_best) ==
    IF shape(biom_updated)[1] # 0
    THEN [fs EXCEPT !.o_metadata_file = <<metadata_edit_best>>,
                    !.o_biom_file = <<biom_updated>>]
    ELSE fs

\* ------------------------------------------------------------ the inputs

\* the counts of one fetched sample: at least one read, at most MaxReads
Profiles ==
    {c \in [Range(FeatureIds) -> 0..MaxReads] :
        LET n == SumOver(c, Range(FeatureIds)) IN 1 <= n /\ n <= MaxReads}

\* the table of the samples sam with the counts cols[s] of every sample s;
\* its observations are the features that some sample has
TableOf(sam, cols) ==
    LET obs == SelectSeq(FeatureIds, LAMBDA f : \E s \in Range(sam) : cols[s][f] # 0)
    IN  [observation |-> obs,
         sample |-> sam,
         data |-> [p \in Range(obs) \X Range(sam) |-> cols[p[2]][p[1]]]]

\* the tables of the samples sam
TablesOf(sam) == {TableOf(sam, cols) : cols \in [Range(sam) -> Profiles]}

\* the tables of at most n samples of SampleIds, in every order
Tables(n) == UNION {TablesOf(sam) : sam \in Arrangements(SampleIds, n)}

\* the ambiguities files redbiom writes next to a table: no file, or every
\* listed identifier with its sample name
AmbiguityFiles ==
    {[isfile |-> FALSE, json |-> <<>>]} \cup
    {[isfile |-> TRUE, json |-> [i \in 1..Len(keys) |-> <<keys[i], NoPrep(keys[i])>>]] :
        keys \in Arrangements(SampleIds, MaxAmbi)}

Hosts == {"a", "b"}

\* the four columns of a metadata file that was written by an earlier run
StaleColumns ==
    [qiita_prep_id |-> "0", read_count |-> 0, feature_count |-> 0,
     orig_sample_name |-> <<"0">>]

\* the metadata files: every sample name of the universe with a host, the
\* same host or another (the first sample is of host "a": only the
\* equality of hosts is ever tested), and the four columns of an earlier run
MetadataFiles ==
    LET names == <<NoPrep(Sam1p1), NoPrep(Sam2p1)>>
    IN  {[columns |-> <<"#SampleID", "host_subject_id", "qiita_prep_id",
                        "read_count", "feature_count", "orig_sample_name">>,
          rows |-> [i \in 1..Len(names) |->
                        <<names[i], h[i], StaleColumns.qiita_prep_id,
                          StaleColumns.read_count, StaleColumns.feature_count,
                          StaleColumns.orig_sample_name>>]] :
            h \in {h \in [1..Len(names) -> Hosts] : h[1] = "a"}}

\* the tables a run may fetch: at most MaxFetched samples, in the order of
\* the identifiers
FetchedOrder == <<Sam1p1, Sam1p2, Sam2p1>>

FetchedTables ==
    UNION {TablesOf(SelectSeq(FetchedOrder, LAMBDA s : s \in S)) :
            S \in {S \in SUBSET SampleIds : Cardinality(S) <= MaxFetched}}

\* the ambiguities files of a run: at most MaxFetched identifiers, listed
\* in the order of the identifiers as the samples of the table are
FetchedAmbiguityFiles ==
    {f \in AmbiguityFiles :
        \E S \in SUBSET SampleIds :
            /\ Cardinality(S) <= MaxFetched
            /\ Len(f.json) = Cardinality(S)
            /\ [i \in 1..Len(f.json) |-> f.json[i][1]]
                    = SelectSeq(FetchedOrder, LAMBDA x : x \in S)}

\* the minimum numbers of reads a run is given
ReadsFilters == 1..(MaxReads + 1)

\* -------------------------------------------------------------- the state

VARIABLES
    pc,                 \* the statement of xrbfetch the run is at
    args,               \* the parameters of the run read so far
    m_metadata_file,    \* the metadata file given to the run
    files,              \* the files the run writes and deletes
    amb_file,           \* the file '<redbiom_output>.ambiguities'
    metadata,           \* the locals of xrbfetch
    summary,
    biom_tab,
    read_counts,
    feat_counts,
    metadata_counts,
    biom_tab_filt,
    metadata_filt,
    biom_nodup,
    metadata_edit_best,
    exit_status,        \* the status the process ended with, -1 while it runs
    call,               \* a single function call: the function and its arguments
    ret                 \* the values the call returned, in order

run_vars == <<pc, args, m_metadata_file, files, amb_file, metadata, summary,
              biom_tab, read_counts, feat_counts, metadata_counts,
              biom_tab_filt, metadata_filt, biom_nodup, metadata_edit_best,
              exit_status>>

vars == <<run_vars, call, ret>>

NoFiles ==
    [redbiom_output |-> <<>>, splitext_ambiguities |-> FALSE,
     redbiom_samples |-> FALSE, o_summary_file |-> <<>>,
     o_metadata_file |-> <<>>, o_biom_file |-> <<>>]

NoLocals ==
    /\ metadata = <<>>
    /\ summary = <<>>
    /\ biom_tab = EmptyTable
    /\ read_counts = <<>>
    /\ feat_counts = <<>>
    /\ metadata_counts = <<>>
    /\ biom_tab_filt = EmptyTable
    /\ metadata_filt = <<>>
    /\ biom_nodup = EmptyTable
    /\ metadata_edit_best = <<>>

\* a run of xrbfetch(simple=False) about to start
Init ==
    /\ pc = "read_meta_pd"
    /\ args = [simple |-> FALSE]
    /\ m_metadata_file \in MetadataFiles
    /\ files = NoFiles
    /\ amb_file = [isfile |-> FALSE, json |-> <<>>]
    /\ NoLocals
    /\ exit_status = -1
    /\ call = [fn |-> "xrbfetch"]
    /\ ret = <<>>

\* --------------------------------------------------------- xrbfetch.py

\* potential_stop stopping the run: the summary written, the scratch files
\* deleted, sys.exit(0)
Stop(sum) ==
    /\ files' = potential_stop_files(files, sum)
    /\ pc' = "exit"
    /\ exit_status' = 0

\* an exception nothing catches ends the run
Raise ==
    /\ pc' = "exception"
    /\ exit_status' = 1

\* potential_stop after a stage: the run stops, or goes on to next
StopOrGo(tab, sum, next) ==
    IF stops(tab, FALSE)
    THEN Stop(sum)
    ELSE pc' = next /\ UNCHANGED <<files, exit_status>>

stale_columns == {"qiita_prep_id", "read_count", "feature_count", "orig_sample_name"}

\* metadata = read_meta_pd(m_metadata_file); summary = [[..., nunique()]]
ReadMetaPd ==
    /\ pc = "read_meta_pd"
    /\ metadata' = read_meta_pd(m_metadata_file)
    /\ summary' = <<<<"Fetching samples from redbiom", nunique_sample_name(metadata')>>>>
    /\ pc' = "run_redbiom_fetch"
    /\ UNCHANGED <<args, m_metadata_file, files, amb_file, biom_tab, read_counts,
                   feat_counts, metadata_counts, biom_tab_filt, metadata_filt,
                   biom_nodup, metadata_edit_best, exit_status, call, ret>>

\* run_redbiom_fetch: a table fetched before is used unless force is set;
\* otherwise the samples list is written and redbiom writes the table and
\* its ambiguities, or nothing when the fetch fails
RunRedbiomFetch ==
    /\ pc = "run_redbiom_fetch"
    /\ \E force \in BOOLEAN, fetched_before \in BOOLEAN, fetch_ok \in BOOLEAN,
          tab \in FetchedTables, amb \in FetchedAmbiguityFiles :
          \/ /\ ~force /\ fetched_before /\ fetch_ok
             /\ files' = [files EXCEPT !.redbiom_output = <<tab>>]
             /\ amb_file' = amb
          \/ /\ ~fetched_before /\ fetch_ok
             /\ files' = [files EXCEPT !.redbiom_samples = TRUE,
                                       !.redbiom_output = <<tab>>]
             /\ amb_file' = amb
          \/ /\ force /\ ~fetched_before /\ ~fetch_ok
             /\ tab = EmptyTable /\ ~amb.isfile
             /\ files' = [files EXCEPT !.redbiom_samples = TRUE]
             /\ amb_file' = amb
    /\ pc' = "read_biom"
    /\ UNCHANGED <<args, m_metadata_file, metadata, summary, biom_tab, read_counts,
                   feat_counts, metadata_counts, biom_tab_filt, metadata_filt,
                   biom_nodup, metadata_edit_best, exit_status, call, ret>>

\* biom_tab = read_biom(redbiom_output); potential_stop; summary.append
ReadBiom ==
    /\ pc = "read_biom"
    /\ IF files.redbiom_output = <<>>
       THEN Raise /\ UNCHANGED <<files, biom_tab, summary>>
       ELSE /\ biom_tab' = files.redbiom_output[1]
            /\ IF stops(biom_tab', FALSE)
               THEN Stop(summary) /\ UNCHANGED summary
               ELSE /\ summary' = Append(summary,
                            <<"Samples in the fetched biom table (all preps)",
                              shape(biom_tab')[1]>>)
                    /\ pc' = "remove_blooms"
                    /\ UNCHANGED <<files, exit_status>>
    /\ UNCHANGED <<args, m_metadata_file, amb_file, metadata, read_counts,
                   feat_counts, metadata_counts, biom_tab_filt, metadata_filt,
                   biom_nodup, metadata_edit_best, call, ret>>

\* if p_bloom_sequences != 'no': remove_blooms(biom_tab, length,
\* p_bloom_sequences), a call with three arguments of a function of two,
\* is a TypeError; then potential_stop
RemoveBlooms ==
    /\ pc = "remove_blooms"
    /\ \E p_bloom_sequences \in {"no", "None"} :
          /\ args' = args @@ [p_bloom_sequences |-> p_bloom_sequences]
          /\ IF p_bloom_sequences # "no"
             THEN Raise /\ UNCHANGED files
             ELSE StopOrGo(biom_tab, summary, "get_reads_features_counts")
    /\ UNCHANGED <<m_metadata_file, amb_file, metadata, summary, biom_tab,
                   read_counts, feat_counts, metadata_counts, biom_tab_filt,
                   metadata_filt, biom_nodup, metadata_edit_best, call, ret>>

\* read_counts, feat_counts = get_reads_features_counts(biom_tab)
GetReadsFeaturesCounts ==
    /\ pc = "get_reads_features_counts"
    /\ read_counts' = get_reads_features_counts(biom_tab).read
    /\ feat_counts' = get_reads_features_counts(biom_tab).feat
    /\ pc' = "solve_ambiguous_preps"
    /\ UNCHANGED <<args, m_metadata_file, files, amb_file, metadata, summary,
                   biom_tab, metadata_counts, biom_tab_filt, metadata_filt,
                   biom_nodup, metadata_edit_best, exit_status, call, ret>>

\* biom_tab_no_ambi = solve_ambiguous_preps(...), the table biom_tab itself
\* filtered in place; summary.append; potential_stop
SolveAmbiguousPreps ==
    /\ pc = "solve_ambiguous_preps"
    /\ biom_tab' = solve_ambiguous_preps(amb_file, biom_tab, read_counts, feat_counts)
    /\ summary' = Append(summary,
            <<"Get most-reads (or most-features) sample from ambiguous samples",
              shape(biom_tab')[2]>>)
    /\ StopOrGo(biom_tab', summary', "merge_read_features_counts")
    /\ UNCHANGED <<args, m_metadata_file, amb_file, metadata, read_counts,
                   feat_counts, metadata_counts, biom_tab_filt, metadata_filt,
                   biom_nodup, metadata_edit_best, call, ret>>

\* metadata_counts = merge_read_features_counts(...), which also drops the
\* four columns from metadata itself
MergeReadFeaturesCounts ==
    /\ pc = "merge_read_features_counts"
    /\ metadata_counts' =
            merge_read_features_counts(metadata, biom_tab, read_counts, feat_counts)
    /\ metadata' = [i \in 1..Len(metadata) |-> drop_columns(metadata[i], stale_columns)]
    /\ pc' = "filter_reads"
    /\ UNCHANGED <<args, m_metadata_file, files, amb_file, summary, biom_tab,
                   read_counts, feat_counts, biom_tab_filt, metadata_filt,
                   biom_nodup, metadata_edit_best, exit_status, call, ret>>

\* biom_tab_filt, metadata_filt = filter_reads(...); summary.append;
\* potential_stop
FilterReads ==
    /\ pc = "filter_reads"
    /\ \E p_reads_filter \in ReadsFilters :
          \E res \in {filter_reads(metadata_counts, biom_tab, p_reads_filter)} :
              /\ args' = args @@ [p_reads_filter |-> p_reads_filter]
              /\ biom_tab' = res.biom_tab_no_ambi
              /\ biom_tab_filt' = res.biom_tab_filt
              /\ metadata_filt' = res.metadata_filt
              /\ summary' = Append(summary,
                    <<"Filter biom for min reads per sample", shape(res.biom_tab_filt)[2]>>)
              /\ StopOrGo(res.biom_tab_filt, summary', "remove_duplicates")
    /\ UNCHANGED <<m_metadata_file, amb_file, metadata, read_counts, feat_counts,
                   metadata_counts, biom_nodup, metadata_edit_best, call, ret>>

\* biom_nodup, metadata_edit_best = remove_duplicates(...); summary.append;
\* potential_stop
RemoveDuplicates ==
    /\ pc = "remove_duplicates"
    /\ \E unique \in BOOLEAN :
          \E res \in {remove_duplicates(biom_tab_filt, metadata_filt, unique)} :
              /\ args' = args @@ [unique |-> unique]
              /\ biom_tab_filt' = res.biom_tab_filt
              /\ biom_nodup' = res.biom_nodup
              /\ metadata_edit_best' = res.metadata_edit_best
              /\ summary' = Append(summary,
                    <<"Keep the best sample per host_subject_id", shape(res.biom_nodup)[2]>>)
              /\ StopOrGo(res.biom_nodup, summary', "update_sample_name")
    /\ UNCHANGED <<m_metadata_file, amb_file, metadata, biom_tab, read_counts,
                   feat_counts, metadata_counts, metadata_filt, call, ret>>

\* biom_updated = update_sample_name(update, biom_nodup), the table
\* biom_nodup itself renamed in place
UpdateSampleName ==
    /\ pc = "update_sample_name"
    /\ \E update \in BOOLEAN :
          /\ args' = args @@ [update |-> update]
          /\ IF update_sample_name_raises(update, biom_nodup)
             THEN Raise /\ UNCHANGED biom_nodup
             ELSE /\ biom_nodup' = update_sample_name(update, biom_nodup)
                  /\ pc' = "write_outputs"
                  /\ UNCHANGED exit_status
    /\ UNCHANGED <<m_metadata_file, files, amb_file, metadata, summary, biom_tab,
                   read_counts, feat_counts, metadata_counts, biom_tab_filt,
                   metadata_filt, metadata_edit_best, call, ret>>

\* write_outputs(o_biom_file, o_metadata_file, biom_updated, metadata_edit_best, dim)
WriteOutputs ==
    /\ pc = "write_outputs"
    /\ files' = write_outputs(files, biom_nodup, metadata_edit_best)
    /\ pc' = "potential_stop"
    /\ UNCHANGED <<args, m_metadata_file, amb_file, metadata, summary, biom_tab,
                   read_counts, feat_counts, metadata_counts, biom_tab_filt,
                   metadata_filt, biom_nodup, metadata_edit_best, exit_status,
                   call, ret>>

\* potential_stop(biom_tab, ..., True): the end of a complete run
FinalStop ==
    /\ pc = "potential_stop"
    /\ Stop(summary)
    /\ UNCHANGED <<args, m_metadata_file, amb_file, metadata, summary, biom_tab,
                   read_counts, feat_counts, metadata_counts, biom_tab_filt,
                   metadata_filt, biom_nodup, metadata_edit_best, call, ret>>

Next ==
    \/ ReadMetaPd
    \/ RunRedbiomFetch
    \/ ReadBiom
    \/ RemoveBlooms
    \/ GetReadsFeaturesCounts
    \/ SolveAmbiguousPreps
    \/ MergeReadFeaturesCounts
    \/ FilterReads
    \/ RemoveDuplicates
    \/ UpdateSampleName
    \/ WriteOutputs
    \/ FinalStop

Spec == Init /\ [][Next]_vars

\* ------------------------------------------------- single function calls

\* the dicts reverse_json_ambi may be given: any value for any key
JsonAmbis ==
    UNION {{[i \in 1..Len(keys) |-> <<keys[i], v[i]>>] : v \in [1..Len(keys) -> SampleNames]} :
            keys \in Arrangements(SampleIds, MaxAmbi)}

\* c is a call of reverse_json_ambi
ReverseJsonAmbiCalls(c) ==
    \E m \in JsonAmbis, ids \in SUBSET SampleIds :
        c = [fn |-> "reverse_json_ambi", json_ambi |-> m, ids |-> ids]

\* c is a call of get_most_read_or_features
GetMostReadOrFeaturesCalls(c) ==
    \E a \in Arrangements(SampleIds, MaxSamples) \ {<<>>},
       n \in [SampleIds -> 1..MaxReads] :
        c = [fn |-> "get_most_read_or_features", amb_sams |-> a, counts |-> n]

\* solve_ambiguous_preps as xrbfetch calls it: with the counts of the table
SolveAmbiguousPrepsCalls(c) ==
    \E f \in AmbiguityFiles, t \in Tables(MaxSamples) :
        c = [fn |-> "solve_ambiguous_preps", amb_file |-> f, biom_tab |-> t,
             read_counts |-> get_reads_features_counts(t).read,
             feat_counts |-> get_reads_features_counts(t).feat]

\* filter_reads as xrbfetch calls it: with the metadata merged for the table
FilterReadsCalls(c) ==
    \E m \in MetadataFiles, t \in Tables(MaxSamples), n \in ReadsFilters :
        c = [fn |-> "filter_reads",
             metadata_counts |-> merge_read_features_counts(
                read_meta_pd(m), t,
                get_reads_features_counts(t).read, get_reads_features_counts(t).feat),
             biom_tab_no_ambi |-> t,
             reads_filter |-> n]

\* the read length of the context, in units of one feature identifier
ReadLength == 1

\* the lines of a fasta file that are sequences: a sequence of the read
\* length, or one that goes on after it
BloomLines ==
    {<<f>> : f \in Range(FeatureIds)} \cup {<<f, "N">> : f \in Range(FeatureIds)}

\* remove_blooms with the sequences of a fasta file
RemoveBloomsCalls(c) ==
    \E t \in Tables(MaxSamples), b \in SUBSET BloomLines :
        c = [fn |-> "remove_blooms", biom_tab |-> t, length |-> ReadLength,
             bloom_seqs |-> b]

\* remove_duplicates on a table and the metadata merged for it; xrbfetch
\* does not get there with a table that potential_stop finds empty
RemoveDuplicatesCalls(c) ==
    \E m \in MetadataFiles, t \in Tables(MaxSamples) \ {TableOf(<<>>, <<>>)},
       u \in BOOLEAN :
        c = [fn |-> "remove_duplicates",
             biom_tab_filt |-> t,
             metadata_filt |-> merge_read_features_counts(
                read_meta_pd(m), t,
                get_reads_features_counts(t).read, get_reads_features_counts(t).feat),
             unique |-> u]

\* c is a call of update_sample_name
UpdateSampleNameCalls(c) ==
    \E u \in BOOLEAN, t \in Tables(MaxSamples) :
        c = [fn |-> "update_sample_name", update |-> u, biom_nodup |-> t]

\* the metadata frames given to merge_read_features_counts: one row per
\* sample name, with or without the four columns of an earlier run
MetadataFrames ==
    {[i \in 1..Len(names) |->
        IF stale
        THEN [sample_name |-> names[i], host_subject_id |-> "a"] @@ StaleColumns
        ELSE [sample_name |-> names[i], host_subject_id |-> "a"]] :
        names \in Arrangements(SampleNames, Cardinality(SampleNames)), stale \in BOOLEAN}

\* merge_read_features_counts as xrbfetch calls it: with the counts of a table
MergeReadFeaturesCountsCalls(c) ==
    \E m \in MetadataFrames, t \in Tables(MaxSamples) :
        c = [fn |-> "merge_read_features_counts", metadata |-> m,
             biom_tab_no_ambi |-> t,
             read_counts |-> get_reads_features_counts(t).read,
             feat_counts |-> get_reads_features_counts(t).feat]

\* the minimum-read filter of run_simple on a table
FilterMoreReadsCalls(c) ==
    \E t \in Tables(MaxSamples), n \in ReadsFilters :
        c = [fn |-> "run_simple", tab |-> t, p_reads_filter |-> n]

\* c is a call of one of the functions
Calls(c) ==
    \/ ReverseJsonAmbiCalls(c)
    \/ GetMostReadOrFeaturesCalls(c)
    \/ SolveAmbiguousPrepsCalls(c)
    \/ FilterReadsCalls(c)
    \/ RemoveBloomsCalls(c)
    \/ RemoveDuplicatesCalls(c)
    \/ UpdateSampleNameCalls(c)
    \/ MergeReadFeaturesCountsCalls(c)
    \/ FilterMoreReadsCalls(c)

\* one call of one function, about to be made
InitCall ==
    /\ pc = "call"
    /\ args = [simple |-> FALSE]
    /\ m_metadata_file = [columns |-> <<>>, rows |-> <<>>]
    /\ files = NoFiles
    /\ amb_file = [isfile |-> FALSE, json |-> <<>>]
    /\ NoLocals
    /\ exit_status = -1
    /\ Calls(call)
    /\ ret = <<>>

CallReverseJsonAmbi ==
    /\ call.fn = "reverse_json_ambi"
    /\ ret = <<>>
    /\ ret' = <<reverse_json_ambi(call.json_ambi, call.ids)>>
    /\ UNCHANGED <<run_vars, call>>

CallGetMostReadOrFeatures ==
    /\ call.fn = "get_most_read_or_features"
    /\ ret = <<>>
    /\ ret' = <<get_most_read_or_features(call.amb_sams, call.counts)>>
    /\ UNCHANGED <<run_vars, call>>

CallSolveAmbiguousPreps ==
    /\ call.fn = "solve_ambiguous_preps"
    /\ ret = <<>>
    /\ ret' = <<solve_ambiguous_preps(
                    call.amb_file, call.biom_tab, call.read_counts, call.feat_counts)>>
    /\ UNCHANGED <<run_vars, call>>

\* filter_reads, and filter_reads again on what it returned
CallFilterReads ==
    /\ call.fn = "filter_reads"
    /\ \/ /\ ret = <<>>
          /\ ret' = <<filter_reads(
                        call.metadata_counts, call.biom_tab_no_ambi, call.reads_filter)>>
       \/ /\ Len(ret) = 1
          /\ ret' = Append(ret, filter_reads(
                        ret[1].metadata_filt, ret[1].biom_tab_filt, call.reads_filter))
    /\ UNCHANGED <<run_vars, call>>

CallRemoveBlooms ==
    /\ call.fn = "remove_blooms"
    /\ ret = <<>>
    /\ ret' = <<remove_blooms(call.biom_tab, call.bloom_seqs)>>
    /\ UNCHANGED <<run_vars, call>>

CallRemoveDuplicates ==
    /\ call.fn = "remove_duplicates"
    /\ ret = <<>>
    /\ ret' = <<remove_duplicates(call.biom_tab_filt, call.metadata_filt, call.unique)>>
    /\ UNCHANGED <<run_vars, call>>

\* merge_read_features_counts returns the merged frame
CallMergeReadFeaturesCounts ==
    /\ call.fn = "merge_read_features_counts"
    /\ ret = <<>>
    /\ ret' = <<merge_read_features_counts(
                    call.metadata, call.biom_tab_no_ambi,
                    call.read_counts, call.feat_counts)>>
    /\ UNCHANGED <<run_vars, call>>

\* update_sample_name returns the table, or ends in the TableException of
\* update_ids
CallUpdateSampleName ==
    /\ call.fn = "update_sample_name"
    /\ ret = <<>>
    /\ ret' = IF update_sample_name_raises(call.update, call.biom_nodup)
              THEN <<[raised |-> TRUE, biom_updated |-> EmptyTable]>>
              ELSE <<[raised |-> FALSE,
                      biom_updated |-> update_sample_name(call.update, call.biom_nodup)]>>
    /\ UNCHANGED <<run_vars, call>>

CallFilterMoreReads ==
    /\ call.fn = "run_simple"
    /\ ret = <<>>
    /\ ret' = <<filter_more_reads(call.tab, call.p_reads_filter)>>
    /\ UNCHANGED <<run_vars, call>>

NextCall ==
    \/ CallReverseJsonAmbi
    \/ CallGetMostReadOrFeatures
    \/ CallSolveAmbiguousPreps
    \/ CallFilterReads
    \/ CallRemoveBlooms
    \/ CallRemoveDuplicates
    \/ CallUpdateSampleName
    \/ CallMergeReadFeaturesCounts
    \/ CallFilterMoreReads

SpecCall == InitCall /\ [][NextCall]_vars

\* ------------------------------------------- the ambiguity resolver, checked

\* a call of solve_ambiguous_preps that has returned
SolveReturned == call.fn = "solve_ambiguous_preps" /\ ret # <<>>

\* the entries of the ambiguity map of the call, in the order of the file
AmbiguityMap == read_json_ambiguities_file(call.amb_file)

TableIds == Range(call.biom_tab.sample)

KeptIds == Range(ret[1].sample)

CanonicalSamples == {AmbiguityMap[i][2] : i \in 1..Len(AmbiguityMap)}

\* the positions of the map whose key is a candidate of v found in the table
CandidatePositions(v) ==
    {i \in 1..Len(AmbiguityMap) :
        AmbiguityMap[i][2] = v /\ AmbiguityMap[i][1] \in TableIds}

Candidates(v) == {AmbiguityMap[i][1] : i \in CandidatePositions(v)}

MostRead(v) ==
    {c \in Candidates(v) :
        \A d \in Candidates(v) : call.read_counts[c] >= call.read_counts[d]}

MostFeatures(v) ==
    {c \in MostRead(v) :
        \A d \in MostRead(v) : call.feat_counts[c] >= call.feat_counts[d]}

\* the candidates that are still in the returned table
SelectedCandidates == KeptIds \cap UNION {Candidates(v) : v \in CanonicalSamples}

\* C1: for every canonical sample of the ambiguity map, a candidate that
\* survives solve_ambiguous_preps has the most reads of the candidates of
\* its group found in the table and, of those with the most reads, the
\* most features.
C1_MostReadsThenMostFeatures ==
    SolveReturned =>
        \A v \in CanonicalSamples :
            \A c \in Candidates(v) \cap KeptIds : c \in MostFeatures(v)

\* C1 happens: two candidates with equal reads, the second in the map with
\* more features, and it is the one that survives
C1_Witness ==
    /\ SolveReturned
    /\ \E v \in CanonicalSamples :
        \E i, j \in CandidatePositions(v) :
            /\ i < j
            /\ call.read_counts[AmbiguityMap[i][1]] = call.read_counts[AmbiguityMap[j][1]]
            /\ call.feat_counts[AmbiguityMap[i][1]] < call.feat_counts[AmbiguityMap[j][1]]
            /\ AmbiguityMap[j][1] \in KeptIds
            /\ AmbiguityMap[i][1] \notin KeptIds

\* C2: after solve_ambiguous_preps every canonical sample with a candidate
\* in the table has exactly one of its candidates left in the table.
C2_ExactlyOnePerGroup ==
    SolveReturned =>
        \A v \in CanonicalSamples :
            Candidates(v) # {} => Cardinality(Candidates(v) \cap KeptIds) = 1

\* C2 happens: a group of several candidates in the table, one of them left
C2_Witness ==
    /\ SolveReturned
    /\ \E v \in CanonicalSamples :
        /\ Cardinality(Candidates(v)) >= 2
        /\ Cardinality(Candidates(v) \cap KeptIds) = 1

\* the roots (identifier without preparation) named anywhere in the map
RootsInMap ==
    {NoPrep(AmbiguityMap[i][1]) : i \in 1..Len(AmbiguityMap)} \cup CanonicalSamples

\* C3 as stated: the kept samples are the selected candidates and the
\* identifiers whose root is nowhere in the ambiguity map.
C3_Stated ==
    SolveReturned =>
        KeptIds = SelectedCandidates \cup
                  {i \in TableIds : NoPrep(i) \notin RootsInMap}

\* C3 as amended: the kept samples are the selected candidates and the
\* identifiers whose root is not the root of a selected candidate; an
\* identifier that is not selected and has the root of a selected
\* candidate is removed.
C3_SelectedOrOtherRoot ==
    SolveReturned =>
        /\ KeptIds = SelectedCandidates \cup
                     {i \in TableIds :
                        \A b \in SelectedCandidates : NoPrep(i) # NoPrep(b)}
        /\ \A i \in TableIds \ SelectedCandidates :
                (\E b \in SelectedCandidates : NoPrep(i) = NoPrep(b))
                    => i \notin KeptIds

\* C3 happens: a sample is kept whose root the map names only for an
\* identifier that is not in the table, next to a selected candidate
C3_Witness ==
    /\ SolveReturned
    /\ \E i \in KeptIds \ SelectedCandidates : NoPrep(i) \in RootsInMap
    /\ SelectedCandidates # {}

\* C6: with an empty ambiguity map, or without its file, the table that
\* solve_ambiguous_preps returns has the samples and the counts it was given.
C6_PassThrough ==
    (SolveReturned /\ AmbiguityMap = <<>>) =>
        /\ ret[1].sample = call.biom_tab.sample
        /\ \A s \in TableIds : \A f \in Range(call.biom_tab.observation) :
                /\ f \in Range(ret[1].observation)
                /\ ret[1].data[<<f, s>>] = call.biom_tab.data[<<f, s>>]

\* C6 happens: a table of several samples of one root, returned without a file
C6_Witness ==
    /\ SolveReturned
    /\ ~call.amb_file.isfile
    /\ \E i, j \in TableIds : i # j /\ NoPrep(i) = NoPrep(j)
    /\ KeptIds = TableIds

\* ------------------------------------------------ the inverted map, checked

ReverseReturned == call.fn = "reverse_json_ambi" /\ ret # <<>>

MapKeys == {call.json_ambi[i][1] : i \in 1..Len(call.json_ambi)}

\* the keys of the given dict that have the value v and are in S, in the
\* order of the dict
KeysWithValue(v, S) ==
    LET found == SelectSeq(call.json_ambi, LAMBDA e : e[2] = v /\ e[1] \in S)
    IN  [i \in 1..Len(found) |-> found[i][1]]

\* rev lists, under every value once, the keys of S that have that value
IsInversionOf(rev, S) ==
    /\ \A i, j \in 1..Len(rev) : rev[i][1] = rev[j][1] => i = j
    /\ \A i \in 1..Len(rev) : rev[i][2] = KeysWithValue(rev[i][1], S)
    /\ \A v \in SampleNames :
            KeysWithValue(v, S) # <<>> => \E i \in 1..Len(rev) : rev[i][1] = v
    /\ \A i \in 1..Len(rev) : rev[i][2] # <<>>

C5_Stated ==
    ReverseReturned =>
        IF call.ids = {}
        THEN IsInversionOf(ret[1], MapKeys)
        ELSE IsInversionOf(ret[1], MapKeys \ call.ids)

\* ---------------------------------------------------- the tie-break, checked

\* the first candidate, in the order of the map, of those of v with the
\* most reads and then the most features
FirstOfTied(v) ==
    LET tied == {i \in CandidatePositions(v) : AmbiguityMap[i][1] \in MostFeatures(v)}
    IN  AmbiguityMap[CHOOSE i \in tied : \A j \in tied : i <= j][1]

\* C7: of several candidates of one canonical sample with the same reads
\* and the same features, solve_ambiguous_preps keeps the first in the
\* order of the ambiguity map and no other; get_most_read_or_features
\* returns every sample with the most counts, in the order it got them.
C7_FirstOfTied ==
    /\ SolveReturned =>
        \A v \in CanonicalSamples :
            Cardinality(MostFeatures(v)) >= 2 =>
                MostFeatures(v) \cap KeptIds = {FirstOfTied(v)}
    /\ (call.fn = "get_most_read_or_features" /\ ret # <<>>) =>
        ret[1] = SelectSeq(call.amb_sams,
                    LAMBDA s : \A d \in Range(call.amb_sams) :
                                    call.counts[s] >= call.counts[d])

\* C7 happens: two candidates tied on reads and features, the first kept
C7_Witness ==
    /\ SolveReturned
    /\ \E v \in CanonicalSamples :
        /\ Cardinality(MostFeatures(v)) >= 2
        /\ FirstOfTied(v) \in KeptIds
        /\ \E c \in MostFeatures(v) : c \notin KeptIds

\* ------------------------------------------------ the reads filter, checked

FilterReturned == call.fn = "filter_reads" /\ ret # <<>>

\* the identifiers of the rows of a metadata frame
OrigSampleNames(frame) == {frame[i].orig_sample_name : i \in 1..Len(frame)}

\* C8: filter_reads keeps the metadata rows with read_count >= reads_filter
\* and no other, the table keeps the samples of those rows and no other,
\* with their counts, and every feature without a count in them is removed.
C8_FilterReads ==
    FilterReturned =>
        LET kept_rows == ret[1].metadata_filt
            tab == ret[1].biom_tab_filt
            given == call.biom_tab_no_ambi
        IN  /\ kept_rows = SelectSeq(call.metadata_counts,
                                LAMBDA r : ~(r.read_count < call.reads_filter))
            /\ Range(tab.sample) = OrigSampleNames(kept_rows)
            /\ Range(tab.sample) \subseteq Range(given.sample)
            /\ Range(tab.observation) =
                    {f \in Range(given.observation) :
                        \E x \in Range(tab.sample) : given.data[<<f, x>>] # 0}
            /\ \A f \in Range(tab.observation) : \A x \in Range(tab.sample) :
                    tab.data[<<f, x>>] = given.data[<<f, x>>]

\* C8 happens: a row with exactly reads_filter reads is kept, another row
\* is removed and a feature goes with it
C8_Witness ==
    /\ FilterReturned
    /\ \E r \in Range(ret[1].metadata_filt) : r.read_count = call.reads_filter
    /\ Len(ret[1].metadata_filt) < Len(call.metadata_counts)
    /\ Len(ret[1].biom_tab_filt.observation) < Len(call.biom_tab_no_ambi.observation)

\* C9: filter_reads applied with the same reads_filter to the table and
\* the metadata it returned returns the same table and the same metadata.
C9_FilterReadsIdempotent ==
    (call.fn = "filter_reads" /\ Len(ret) = 2) =>
        /\ ret[2].biom_tab_filt = ret[1].biom_tab_filt
        /\ ret[2].metadata_filt = ret[1].metadata_filt

\* C9 happens: the first call removed a row and kept two, the second ran
C9_Witness ==
    /\ call.fn = "filter_reads"
    /\ Len(ret) = 2
    /\ Len(ret[1].metadata_filt) < Len(call.metadata_counts)
    /\ Len(ret[2].metadata_filt) >= 2

\* ------------------------------------------- rows and columns, checked

SampleNamesOf(frame) == {frame[i].sample_name : i \in 1..Len(frame)}

\* the stages of a run that have completed, read off the summary (one line
\* per stage that counts samples), the arguments read so far and pc
BloomsDone ==
    /\ Len(summary) = 2
    /\ "p_bloom_sequences" \in DOMAIN args
    /\ pc # "exception"

SolveDone == Len(summary) = 3 /\ pc # "filter_reads"

MergeDone == Len(summary) = 3 /\ pc = "filter_reads"

FilterDone == Len(summary) = 4

DuplicatesDone == Len(summary) = 5 /\ "update" \notin DOMAIN args

UpdateDone == Len(summary) = 5 /\ "update" \in DOMAIN args /\ pc # "exception"

\* the identifiers of the final metadata: the names the table has after
\* update_sample_name
FinalNames ==
    IF args.update THEN SampleNamesOf(metadata_edit_best)
    ELSE OrigSampleNames(metadata_edit_best)

\* the rows and the columns from the count merge on
ConsistentFromMerge ==
    /\ MergeDone => OrigSampleNames(metadata_counts) = Range(biom_tab.sample)
    /\ FilterDone => OrigSampleNames(metadata_filt) = Range(biom_tab_filt.sample)
    /\ DuplicatesDone => OrigSampleNames(metadata_edit_best) = Range(biom_nodup.sample)
    /\ UpdateDone => FinalNames = Range(biom_nodup.sample)

\* C10 as stated: after every stage of the run, the contaminant filter and
\* the ambiguity resolver included, the samples of the metadata are the
\* samples of the table (the names of the metadata compared with the
\* identifiers of the table without their preparation).
C10_Stated ==
    /\ (BloomsDone \/ SolveDone) =>
            SampleNamesOf(metadata) = {NoPrep(x) : x \in Range(biom_tab.sample)}
    /\ ConsistentFromMerge

\* C10 as amended: after the count merge, the minimum-read filter, the
\* duplicate resolver and the identifier normalizer, the identifiers of
\* the metadata rows are the identifiers of the samples of the table.
C10_ConsistentFromMerge == ConsistentFromMerge

\* C10 happens: a run that reaches its outputs with the table renamed
\* and fewer samples than the count merge had
C10_Witness ==
    /\ pc = "write_outputs"
    /\ args.update
    /\ metadata_edit_best # <<>>
    /\ Len(metadata_edit_best) < Len(metadata_counts)
    /\ Cardinality(SampleNamesOf(metadata)) > Len(metadata_edit_best)

\* ------------------------------------------ tables without empties, checked

\* every feature and every sample of the table has a count
NoEmpty(t) ==
    /\ \A f \in Range(t.observation) : \E x \in Range(t.sample) : t.data[<<f, x>>] # 0
    /\ \A x \in Range(t.sample) : \E f \in Range(t.observation) : t.data[<<f, x>>] # 0

\* C11: the table that a filtering stage returns (remove_blooms,
\* solve_ambiguous_preps, filter_reads, remove_duplicates) has a count in
\* every feature and in every sample.
C11_NoEmpty ==
    ret # <<>> =>
        /\ call.fn \in {"remove_blooms", "solve_ambiguous_preps"} => NoEmpty(ret[1])
        /\ call.fn = "filter_reads" => NoEmpty(ret[1].biom_tab_filt)
        /\ call.fn = "remove_duplicates" => NoEmpty(ret[1].biom_nodup)

\* C11 happens: remove_blooms removed a feature and, with it, a sample
C11_Witness ==
    /\ call.fn = "remove_blooms"
    /\ ret # <<>>
    /\ Len(ret[1].observation) < Len(call.biom_tab.observation)
    /\ Len(ret[1].sample) < Len(call.biom_tab.sample)
    /\ ret[1].sample # <<>>

\* ------------------------------------- single calls of duplicates.py

\* an identifier with a letter after the digits of its second field
Sam1Ap1 == <<"10317", <<"0", "1", "A">>, "57016">>

DupOrder == <<Sam1p1, Sam1Ap1, Sam1p2, Sam2p1>>

\* an identifier with another first field and the second field of Sam1p1
Sam1OfRoot2 == <<"20000", <<"0", "1">>, "57016">>

\* the identifiers of the frames given to the root-sample collapse
RootOrder == DupOrder \o <<Sam1OfRoot2>>

\* the read and feature counts a sample may have
CountPairs == {p \in (1..MaxReads) \X (1..MaxReads) : p[2] <= p[1]}

\* a frame as filter_reads returns it, with the two names added: the
\* identifiers sam in order, the counts c[i] and the host h[i] of row i
FrameOf(sam, c, h) ==
    add_edit_and_working_sample_name(
        [i \in 1..Len(sam) |->
            [host_subject_id |-> h[i]] @@
            counts_row(sam[i], [x \in {sam[i]} |-> c[i][1]], [x \in {sam[i]} |-> c[i][2]])])

\* the frames given to keep_the_best_host_subject_id_sample: the rows differ
\* by their counts and their hosts
HostFrames(c) ==
    \E n \in 1..MaxRows : \E r \in [1..n -> CountPairs], h \in [1..n -> Hosts] :
        c = [fn |-> "keep_the_best_host_subject_id_sample",
             frame |-> FrameOf(SubSeq(DupOrder, 1, n), r, h)]

\* the frames given to keep_the_best_root_sample_name_sample: the rows
\* differ by their identifiers, in every order, and their counts
RootFrames(c) ==
    \E sam \in Arrangements(Range(RootOrder), MaxRows) \ {<<>>} :
        \E r \in [1..Len(sam) -> CountPairs] :
            c = [fn |-> "keep_the_best_root_sample_name_sample",
                 frame |-> FrameOf(sam, r, [i \in 1..Len(sam) |-> "a"])]

\* the frames given to add_edit_and_working_sample_name, names not added yet
PlainFrames(c) ==
    \E sam \in Arrangements(Range(DupOrder), MaxRows) \ {<<>>} :
        c = [fn |-> "add_edit_and_working_sample_name",
             frame |-> [i \in 1..Len(sam) |->
                [host_subject_id |-> "a"] @@
                counts_row(sam[i], [x \in {sam[i]} |-> 1], [x \in {sam[i]} |-> 1])]]

\* remove_duplicates on a table of some of the identifiers, in their order,
\* and the metadata of its samples, each with its counts and a host
DuplicatesFrames(c) ==
    \E S \in SUBSET Range(DupOrder) :
        /\ 1 <= Cardinality(S) /\ Cardinality(S) <= MaxRows
        /\ LET sam == SelectSeq(DupOrder, LAMBDA x : x \in S)
           IN  \E t \in TablesOf(sam) :
                 \E h \in {h \in [1..Len(sam) -> Hosts] : h[1] = "a"}, u \in BOOLEAN :
                    c = [fn |-> "remove_duplicates",
                         biom_tab_filt |-> t,
                         metadata_filt |->
                            [i \in 1..Len(sam) |->
                                [host_subject_id |-> h[i]] @@
                                counts_row(sam[i], get_reads_features_counts(t).read,
                                           get_reads_features_counts(t).feat)],
                         unique |-> u]

\* c is a call of one of the functions of duplicates.py
DupCalls(c) == PlainFrames(c) \/ HostFrames(c) \/ RootFrames(c) \/ DuplicatesFrames(c)

InitDup ==
    /\ pc = "call"
    /\ args = [simple |-> FALSE]
    /\ m_metadata_file = [columns |-> <<>>, rows |-> <<>>]
    /\ files = NoFiles
    /\ amb_file = [isfile |-> FALSE, json |-> <<>>]
    /\ NoLocals
    /\ exit_status = -1
    /\ DupCalls(call)
    /\ ret = <<>>

CallAddEditAndWorkingSampleName ==
    /\ call.fn = "add_edit_and_working_sample_name"
    /\ ret = <<>>
    /\ ret' = <<add_edit_and_working_sample_name(call.frame)>>
    /\ UNCHANGED <<run_vars, call>>

CallKeepTheBestHostSubjectIdSample ==
    /\ call.fn = "keep_the_best_host_subject_id_sample"
    /\ ret = <<>>
    /\ ret' = <<keep_the_best_host_subject_id_sample(call.frame)>>
    /\ UNCHANGED <<run_vars, call>>

CallKeepTheBestRootSampleNameSample ==
    /\ call.fn = "keep_the_best_root_sample_name_sample"
    /\ ret = <<>>
    /\ ret' = <<keep_the_best_root_sample_name_sample(call.frame)>>
    /\ UNCHANGED <<run_vars, call>>

NextDup ==
    \/ CallAddEditAndWorkingSampleName
    \/ CallKeepTheBestHostSubjectIdSample
    \/ CallKeepTheBestRootSampleNameSample
    \/ CallRemoveDuplicates

SpecDup == InitDup /\ [][NextDup]_vars

\* --------------------------------------------- the two collapses, checked

HostReturned == call.fn = "keep_the_best_host_subject_id_sample" /\ ret # <<>>

RootReturned == call.fn = "keep_the_best_root_sample_name_sample" /\ ret # <<>>

\* the positions of the rows of the given frame that have the key k (key:
\* a column name), and of them those with the most reads and then the
\* most features
GroupOf(key, k) == {i \in 1..Len(call.frame) : call.frame[i][key] = k}

BestOfGroup(key, k) ==
    LET g == GroupOf(key, k)
        most_read == {i \in g : \A j \in g :
                        call.frame[i].read_count >= call.frame[j].read_count}
    IN  {i \in most_read : \A j \in most_read :
            call.frame[i].feature_count >= call.frame[j].feature_count}

KeysOf(key) == {call.frame[i][key] : i \in 1..Len(call.frame)}

\* the positions in the given frame of the rows that were returned
Returned == {i \in 1..Len(call.frame) : call.frame[i] \in Range(ret[1])}

\* one row of every group is returned, one of the best of the group, and
\* nothing is returned that was not given
OneBestPerGroup(key) ==
    /\ Range(ret[1]) \subseteq Range(call.frame)
    /\ Len(ret[1]) = Cardinality(Returned)
    /\ \A k \in KeysOf(key) :
        /\ Cardinality(GroupOf(key, k) \cap Returned) = 1
        /\ GroupOf(key, k) \cap Returned \subseteq BestOfGroup(key, k)

C13_Stated == RootReturned => OneBestPerGroup("working_sample_name")

AddEditReturned == call.fn = "add_edit_and_working_sample_name" /\ ret # <<>>

\* the number that a string of digits writes, read from its first digit
RECURSIVE NumberOf(_)
NumberOf(digits) ==
    IF digits = <<>> THEN 0
    ELSE DigitValue(Head(digits)) * 10 ^ (Len(digits) - 1) + NumberOf(Tail(digits))

\* C14: for an identifier whose second field is digits and one other
\* character, add_edit_and_working_sample_name gives the working sample
\* name of the identifier with the digits alone, the number they write,
\* and the edit_sample_name without that character; for a field of digits
\* the edit_sample_name is the identifier.
C14_EditAndWorkingNames ==
    AddEditReturned =>
        /\ Len(ret[1]) = Len(call.frame)
        /\ \A i \in 1..Len(ret[1]) :
            LET sam == call.frame[i].orig_sample_name
                tag == sam[2]
                digits == SubSeq(tag, 1, Len(tag) - 1)
            IN  /\ ret[1][i].orig_sample_name = sam
                /\ (\A n \in 1..Len(tag) : tag[n] \in Digits) =>
                        /\ ret[1][i].edit_sample_name = sam
                        /\ ret[1][i].working_sample_name = NumberOf(tag)
                /\ ((\A n \in 1..Len(digits) : digits[n] \in Digits)
                        /\ digits # <<>> /\ tag[Len(tag)] \notin Digits) =>
                        /\ ret[1][i].edit_sample_name = <<sam[1], digits, sam[3]>>
                        /\ ret[1][i].working_sample_name = NumberOf(digits)
        /\ \A i, j \in 1..Len(ret[1]) :
            (ret[1][i].orig_sample_name = Sam1Ap1 /\ ret[1][j].orig_sample_name = Sam1p1) =>
                /\ ret[1][i].working_sample_name = ret[1][j].working_sample_name
                /\ ret[1][i].working_sample_name = 1
                /\ ret[1][i].edit_sample_name = Sam1p1

\* C14 happens: '10317.01A.57016' and '10317.01.57016' in one frame
C14_Witness ==
    /\ AddEditReturned
    /\ \E i, j \in 1..Len(ret[1]) :
        /\ ret[1][i].orig_sample_name = Sam1Ap1
        /\ ret[1][j].orig_sample_name = Sam1p1
        /\ ret[1][i].edit_sample_name = ret[1][j].edit_sample_name

\* the first row, in the order of the input, of the best rows of a group
FirstBestOfGroup(key, k) ==
    CHOOSE i \in BestOfGroup(key, k) : \A j \in BestOfGroup(key, k) : i <= j

\* C15 as stated: of the rows of a group with the same reads and the same
\* features, the host collapse and the root-sample collapse keep the
\* first in the order of the input, and only that one.
C15_Stated ==
    /\ HostReturned =>
        \A k \in KeysOf("host_subject_id") :
            BestOfGroup("host_subject_id", k) \cap Returned
                = {FirstBestOfGroup("host_subject_id", k)}
    /\ RootReturned =>
        \A k \in KeysOf("working_sample_name") :
            BestOfGroup("working_sample_name", k) \cap Returned
                = {FirstBestOfGroup("working_sample_name", k)}

\* ------------------------------------------- update_sample_name, checked

UpdateReturned == call.fn = "update_sample_name" /\ ret # <<>>

\* the full identifiers of the table given to update_sample_name that get
\* the short name of another identifier of the table
Collisions ==
    {s \in Range(call.biom_nodup.sample) :
        \E o \in Range(call.biom_nodup.sample) : o # s /\ NoPrep(o) = NoPrep(s)}

\* the table t is the table given to update_sample_name, with every sample
\* named by its identifier without the last segment
RenamedOnly(t) ==
    LET old == call.biom_nodup
    IN  /\ t.observation = old.observation
        /\ Len(t.sample) = Len(old.sample)
        /\ \A i \in 1..Len(old.sample) : t.sample[i] = but_last(old.sample[i])
        /\ \A f \in Range(old.observation) : \A i \in 1..Len(old.sample) :
               t.data[<<f, t.sample[i]>>] = old.data[<<f, old.sample[i]>>]

\* C16: with update set, the table that update_sample_name returns has every
\* sample named by its identifier minus the last dot-separated segment, in
\* the same order, with the same features and the same counts; with update
\* unset the table is returned as it was given.
C16_RenamedOnly ==
    (UpdateReturned /\ ~ret[1].raised) =>
        IF call.update
        THEN RenamedOnly(ret[1].biom_updated)
        ELSE ret[1].biom_updated = call.biom_nodup

C16_Witness ==
    /\ UpdateReturned /\ call.update /\ ~ret[1].raised
    /\ Len(call.biom_nodup.sample) >= 2
    /\ ret[1].biom_updated.sample # call.biom_nodup.sample
    /\ \E f \in Range(call.biom_nodup.observation) :
          \E s \in Range(call.biom_nodup.sample) : call.biom_nodup.data[<<f, s>>] > 0

ZeroAfterStage ==
    \/ pc = "read_biom" /\ files.redbiom_output # <<>> /\ Len(biom_tab'.sample) = 0
    \/ pc = "remove_blooms" /\ pc' # "exception" /\ Len(biom_tab'.sample) = 0
    \/ pc = "solve_ambiguous_preps" /\ Len(biom_tab'.sample) = 0
    \/ pc = "filter_reads" /\ Len(biom_tab_filt'.sample) = 0
    \/ pc = "remove_duplicates" /\ Len(biom_nodup'.sample) = 0

\* the run has ended with status 0, the summary collected so far written,
\* the samples list and the fetched table deleted, no output written
EarlyStopped ==
    /\ pc = "exit"
    /\ exit_status = 0
    /\ files.o_summary_file = write_summary(summary)
    /\ files.redbiom_output = <<>>
    /\ ~files.redbiom_samples
    /\ files.o_biom_file = <<>>
    /\ files.o_metadata_file = <<>>

\* C18: a step of the full pipeline that ends a stage (fetch, contaminant
\* filter, ambiguity resolver, minimum-read filter, duplicate resolver) with
\* no sample left ends the run: status 0, the summary so far written, the
\* samples list and the fetched table deleted, no table or metadata output;
\* and a run that has ended takes no further step.
C18_EarlyStop ==
    [][/\ ZeroAfterStage => EarlyStopped'
       /\ pc # "exit"]_vars

C18_Witness ==
    /\ EarlyStopped
    /\ Len(summary) = 4
    /\ summary[4][2] = 0
    /\ Len(biom_tab_filt.sample) = 0
    /\ Len(biom_tab.sample) = 0

\* ----------------------------------------------- the end of a run, checked

\* the run has ended: sys.exit(0) of potential_stop, or an exception
Terminated == pc \in {"exit", "exception"}

BothOutputsWritten == files.o_biom_file # <<>> /\ files.o_metadata_file # <<>>

OnlySummaryWritten ==
    /\ files.o_biom_file = <<>>
    /\ files.o_metadata_file = <<>>
    /\ files.o_summary_file # <<>>

\* C19: a run that has ended has written both the output table and the
\* output metadata, or has written neither of them and the summary only.
C19_Stated == Terminated => (BothOutputsWritten \/ OnlySummaryWritten)

\* C20: after an exit through potential_stop none of the scratch files of
\* the run is left: not the fetched table, not the ambiguities file that
\* read_json_ambiguities_file reads, not the samples list.
C20_Stated ==
    pc = "exit" =>
        /\ files.redbiom_output = <<>>
        /\ ~amb_file.isfile
        /\ ~files.redbiom_samples

\* ------------------------------------------------- the summary, checked

\* a step of the run that appends one entry to the summary
Appends == Len(summary') = Len(summary) + 1

\* the samples of the table of the stage that the step ends
StageSamples ==
    CASE pc = "read_biom" -> Len(biom_tab'.sample)
      [] pc = "remove_blooms" -> Len(biom_tab'.sample)
      [] pc = "solve_ambiguous_preps" -> Len(biom_tab'.sample)
      [] pc = "filter_reads" -> Len(biom_tab_filt'.sample)
      [] pc = "remove_duplicates" -> Len(biom_nodup'.sample)
      [] OTHER -> nunique_sample_name(metadata')

\* C21: every entry appended to the summary records the number of samples
\* of the table of its stage (of the metadata, for the entry that precedes
\* the fetch), and a summary file that is written holds the header line and
\* then the entries in the order they were appended.
C21_Stated ==
    [][/\ Appends => summary'[Len(summary')][2] = StageSamples
       /\ files'.o_summary_file # files.o_summary_file =>
            /\ Len(files'.o_summary_file) = Len(summary') + 1
            /\ \A i \in 1..Len(summary') : files'.o_summary_file[i + 1] = summary'[i]]_vars

\* ------------------------------------- merge_read_features_counts, checked

MergeReturned == call.fn = "merge_read_features_counts" /\ ret # <<>>

\* the sample names of the identifiers of the table given to the merge
TableSampleNames == {but_last(s) : s \in Range(call.biom_tab_no_ambi.sample)}

\* C22: the frame that merge_read_features_counts returns has as many rows
\* as the table has samples, orig_sample_name ranges over exactly the
\* identifiers of the table, in every row sample_name is orig_sample_name
\* minus its last segment and qiita_prep_id is that last segment, and no
\* row has the sample_name of a metadata row that matches no identifier.
C22_RowsOfTheTable ==
    MergeReturned =>
        /\ Len(ret[1]) = Len(call.biom_tab_no_ambi.sample)
        /\ {r.orig_sample_name : r \in Range(ret[1])} = Range(call.biom_tab_no_ambi.sample)
        /\ \A r \in Range(ret[1]) :
              /\ r.sample_name = but_last(r.orig_sample_name)
              /\ r.qiita_prep_id = r.orig_sample_name[Len(r.orig_sample_name)]
        /\ \A m \in Range(call.metadata) :
              m.sample_name \notin TableSampleNames =>
                  \A r \in Range(ret[1]) : r.sample_name # m.sample_name

C22_Witness ==
    /\ MergeReturned
    /\ Len(ret[1]) = 2
    /\ \E m \in Range(call.metadata) : m.sample_name \notin TableSampleNames
    /\ \E m \in Range(call.metadata) : m.sample_name \in TableSampleNames
    /\ "read_count" \in DOMAIN call.metadata[1]

\* ------------------------------------------------ remove_blooms, checked

BloomsReturned == call.fn = "remove_blooms" /\ ret # <<>>

\* the features of the table whose sequence is a reference sequence cut to
\* the read length
ContaminantFeatures ==
    {f \in Range(call.biom_tab.observation) :
        \E x \in call.bloom_seqs : truncated(x, call.length) = <<f>>}

\* C23: remove_blooms returns the table without the features that are
\* reference sequences cut to the read length, and then without the
\* samples that are left with no count; a table without such a feature is
\* returned as it was given.
C23_Stated ==
    BloomsReturned =>
        /\ Range(ret[1].observation)
              = Range(call.biom_tab.observation) \ ContaminantFeatures
        /\ Range(ret[1].sample)
              = {s \in Range(call.biom_tab.sample) :
                    \E f \in Range(call.biom_tab.observation) \ ContaminantFeatures :
                        call.biom_tab.data[<<f, s>>] # 0}
        /\ \A f \in Range(ret[1].observation) : \A s \in Range(ret[1].sample) :
              ret[1].data[<<f, s>>] = call.biom_tab.data[<<f, s>>]
        /\ ContaminantFeatures = {} => ret[1] = call.biom_tab

\* ------------------------------------------- the metadata loader, by header

\* the most characters of a header line
MaxHeader == 2

\* the characters of a header line: a letter or one of the separators
HeaderChars == {"a", "\t", ";", ","}

\* ['\t', ';', ','], the separators read_meta_pd of _xrbfetch_io.py tries
Separators == <<"\t", ";", ",">>

\* the header lines of the metadata files
Headers == UNION {[1..k -> HeaderChars] : k \in 1..MaxHeader}

\* str.strip(): the line without the white space at its ends (the tabs)
RECURSIVE lstrip(_)
lstrip(line) ==
    IF line # <<>> /\ Head(line) = "\t" THEN lstrip(Tail(line)) ELSE line

RECURSIVE rstrip(_)
rstrip(line) ==
    IF line # <<>> /\ line[Len(line)] = "\t"
    THEN rstrip(SubSeq(line, 1, Len(line) - 1)) ELSE line

strip(line) == rstrip(lstrip(line))

\* str.count(sep)
count(line, sep) == Cardinality({i \in 1..Len(line) : line[i] = sep})

\* str.split(sep): the fields between the separators
RECURSIVE split(_, _)
split(line, sep) ==
    IF count(line, sep) = 0 THEN <<line>>
    ELSE LET i == CHOOSE i \in 1..Len(line) :
                    line[i] = sep /\ \A j \in 1..(i - 1) : line[j] # sep
         IN  <<SubSeq(line, 1, i - 1)>> \o split(SubSeq(line, i + 1, Len(line)), sep)

\* the test of read_meta_pd of _xrbfetch_io.py on one separator
separates(header, sep) ==
    Len(split(header, sep)) > 1 /\ Len(split(header, sep)) = count(header, sep) + 1

\* the separators found in the stripped header, in the order they are tried
found_separators(line) == SelectSeq(Separators, LAMBDA sep : separates(strip(line), sep))

\* the columns of the frame: the fields of the header, the first one
\* named sample_name
columns_from(line, sep) ==
    LET fields == split(line, sep)
    IN  [i \in 1..Len(fields) |-> IF i = 1 THEN <<"sample_name">> ELSE fields[i]]

\* a run of the full pipeline about to read a metadata file with some header
InitLoad ==
    /\ pc = "read_meta_pd"
    /\ args = [simple |-> FALSE]
    /\ m_metadata_file \in {[header |-> h] : h \in Headers}
    /\ files = NoFiles
    /\ amb_file = [isfile |-> FALSE, json |-> <<>>]
    /\ NoLocals
    /\ exit_status = -1
    /\ call = [fn |-> "xrbfetch"]
    /\ ret = <<>>

\* read_meta_pd of _xrbfetch_io.py: the first separator found in the header
\* is the one of the file; without one, a message and sys.exit(1)
ReadMetaPdBySeparator ==
    /\ pc = "read_meta_pd"
    /\ args' = args @@ [read_meta_pd |-> "_xrbfetch_io"]
    /\ IF found_separators(m_metadata_file.header) = <<>>
       THEN /\ pc' = "exit"
            /\ exit_status' = 1
            /\ UNCHANGED metadata
       ELSE /\ metadata' = columns_from(m_metadata_file.header,
                                        Head(found_separators(m_metadata_file.header)))
            /\ pc' = "run_redbiom_fetch"
            /\ UNCHANGED exit_status
    /\ UNCHANGED <<m_metadata_file, files, amb_file, summary, biom_tab, read_counts,
                   feat_counts, metadata_counts, biom_tab_filt, metadata_filt,
                   biom_nodup, metadata_edit_best, call, ret>>

\* read_meta_pd of io.py: pd.read_table, the fields are those between tabs
ReadMetaPdByTable ==
    /\ pc = "read_meta_pd"
    /\ args' = args @@ [read_meta_pd |-> "io"]
    /\ metadata' = columns_from(m_metadata_file.header, "\t")
    /\ pc' = "run_redbiom_fetch"
    /\ UNCHANGED <<m_metadata_file, files, amb_file, summary, biom_tab, read_counts,
                   feat_counts, metadata_counts, biom_tab_filt, metadata_filt,
                   biom_nodup, metadata_edit_best, exit_status, call, ret>>

\* the run up to the fetch
NextLoad ==
    \/ ReadMetaPdBySeparator
    \/ ReadMetaPdByTable
    \/ RunRedbiomFetch

SpecLoad == InitLoad /\ [][NextLoad]_vars

\* no separator can be detected in the header of the metadata file
NoSeparator ==
    \A i \in 1..Len(Separators) : count(strip(m_metadata_file.header), Separators[i]) = 0

\* C24: once the metadata loader has read a file in whose header no
\* separator can be detected, the run has ended with a failure status and
\* no fetch was made and no file was written.
C24_Stated ==
    (NoSeparator /\ pc # "read_meta_pd") =>
        /\ pc = "exit"
        /\ exit_status = 1
        /\ files = NoFiles
        /\ ~amb_file.isfile

\* ------------------------------------------- the counts of the rows, checked

\* every row of the frame has the reads and the features of the column of
\* its sample in the table t: the column named by orig_sample_name, by
\* sample_name once update_sample_name has renamed the table
CountsMatch(frame, t, renamed) ==
    \A i \in 1..Len(frame) :
        LET x == IF renamed THEN frame[i].sample_name ELSE frame[i].orig_sample_name
        IN  /\ x \in Range(t.sample)
            /\ frame[i].read_count
                  = SumOver([f \in Range(t.observation) |-> t.data[<<f, x>>]],
                            Range(t.observation))
            /\ frame[i].feature_count
                  = Cardinality({f \in Range(t.observation) : t.data[<<f, x>>] > 0})

DuplicatesReturned == call.fn = "remove_duplicates" /\ ret # <<>>

\* the rows given to remove_duplicates, with their working sample names
GivenRows == Range(add_edit_and_working_sample_name(call.metadata_filt))

\* the identifiers of the rows that remove_duplicates returns
KeptNames == {r.orig_sample_name : r \in Range(ret[1].metadata_edit_best)}

\* C26: remove_duplicates reduces the rows of every working sample name to
\* one when unique is unset (to one at most when it is set), and leaves one
\* row per host at most when unique is set; with unique unset a row that
\* is alone with its working sample name survives, whatever its host.
C26_Stated ==
    DuplicatesReturned =>
        /\ \A r \in GivenRows :
              Cardinality({x \in GivenRows : /\ x.working_sample_name = r.working_sample_name
                                              /\ x.orig_sample_name \in KeptNames})
                  \in (IF call.unique THEN {0, 1} ELSE {1})
        /\ call.unique =>
              \A r \in GivenRows :
                Cardinality({x \in GivenRows : /\ x.host_subject_id = r.host_subject_id
                                                /\ x.orig_sample_name \in KeptNames}) <= 1
        /\ ~call.unique =>
              \A r \in GivenRows :
                (\A x \in GivenRows : x.working_sample_name = r.working_sample_name => x = r)
                    => r.orig_sample_name \in KeptNames

\* C27: every row that the root-sample collapse removes has a row left
\* with the same first field (the root sample id) and the same number in
\* the second field.
C27_Stated ==
    RootReturned =>
        \A r \in Range(call.frame) :
            r \notin Range(ret[1]) =>
                \E x \in Range(ret[1]) :
                    /\ x.orig_sample_name[1] = r.orig_sample_name[1]
                    /\ x.working_sample_name = r.working_sample_name

\* ------------------------------- the minimum-read filter of run_simple, checked

SimpleFiltered == call.fn = "run_simple" /\ ret # <<>>

\* what filter_reads leaves of the same table, with the metadata m
FilterReadsOf(m) ==
    filter_reads(
        merge_read_features_counts(
            read_meta_pd(m), call.tab,
            get_reads_features_counts(call.tab).read,
            get_reads_features_counts(call.tab).feat),
        call.tab, call.p_reads_filter).biom_tab_filt

\* C28: run_simple keeps a sample when and only when its reads are more
\* than the threshold; a sample with exactly the threshold is dropped by
\* run_simple and kept by filter_reads; on every other sample the two
\* filters agree.
C28_StrictInSimple ==
    SimpleFiltered =>
        \A sam \in Range(call.tab.sample), m \in MetadataFiles :
            LET n == sum_sample(call.tab, sam)
                in_simple == sam \in Range(ret[1].sample)
                in_full == sam \in Range(FilterReadsOf(m).sample)
            IN  /\ in_simple <=> n > call.p_reads_filter
                /\ n = call.p_reads_filter => ~in_simple /\ in_full
                /\ n # call.p_reads_filter => (in_simple <=> in_full)

C28_Witness ==
    /\ SimpleFiltered
    /\ \E sam \in Range(call.tab.sample) :
            sum_sample(call.tab, sam) = call.p_reads_filter
    /\ \E sam \in Range(call.tab.sample) :
            sum_sample(call.tab, sam) > call.p_reads_filter

\* ------------------------------------------- the order of the stages, checked

\* the stages of xrbfetch after the fetch, in the order of the claim
StageOrder ==
    <<"remove_blooms", "get_reads_features_counts", "solve_ambiguous_preps",
      "merge_read_features_counts", "filter_reads", "remove_duplicates",
      "update_sample_name", "write_outputs", "potential_stop">>

\* the stage at position i ends and the next one is the one to run, or the
\* run stops through potential_stop
NextStage(i) ==
    \/ pc' = StageOrder[i + 1]
    \/ pc' = "exit" /\ exit_status' = 0

\* C29: every stage of the full pipeline ends before the next one of the
\* order starts (or the run stops through potential_stop), and the counts
\* given to the ambiguity resolver and to the minimum-read filter are those
\* of the table that the contaminant filter left.
C29_Stated ==
    [][/\ \A i \in 1..(Len(StageOrder) - 1) : pc = StageOrder[i] => NextStage(i)
       /\ pc' = "solve_ambiguous_preps" =>
            /\ read_counts' = get_reads_features_counts(biom_tab').read
            /\ feat_counts' = get_reads_features_counts(biom_tab').feat
       /\ pc' = "filter_reads" =>
            \A i \in 1..Len(metadata_counts') :
                metadata_counts'[i].read_count =
                    read_counts'[metadata_counts'[i].orig_sample_name]]_vars

\* --------------------------------- the renaming of the full run, checked

\* the identifiers of the rows given to remove_duplicates that have the
\* name of another row once the preparation is cut
SharedNoPrep ==
    {r.orig_sample_name : r \in
        {r \in Range(metadata_filt) :
            \E o \in Range(metadata_filt) :
                /\ o.orig_sample_name # r.orig_sample_name
                /\ NoPrep(o.orig_sample_name) = NoPrep(r.orig_sample_name)}}

\* C30: in the full run no two samples of the table given to
\* update_sample_name have the same name once the preparation is cut, so
\* with update set the renaming never raises and the table has as many
\* samples, all different, after it as before.
C30_Injective ==
    /\ pc = "update_sample_name" =>
            \A s, o \in Range(biom_nodup.sample) : NoPrep(s) = NoPrep(o) => s = o
    /\ ("update" \in DOMAIN args /\ args.update) =>
            /\ pc # "exception"
            /\ Len(biom_nodup.sample) = summary[5][2]
            /\ Cardinality(Range(biom_nodup.sample)) = summary[5][2]

C30_Witness ==
    /\ UpdateDone /\ args.update
    /\ SharedNoPrep # {}
    /\ \E s \in SharedNoPrep : biom_nodup.sample = <<NoPrep(s)>>

====
